---------------------------- MODULE Spec2Model ----------------------------
(***************************************************************************)
(* A model of bin/jsonld.js, the jsonld command line tool.                 *)
(*                                                                         *)
(* One behaviour is one invocation of the process: commander parses the    *)
(* argument list and runs one command action; the action builds the        *)
(* jsonld options, calls the jsonld library, which calls back into the     *)
(* documentLoader of the options for every resource it needs; every        *)
(* request goes through the request wrapper _jsonldRequest; the result is  *)
(* written by _output, a rejection is reported by _error.                  *)
(*                                                                         *)
(* JavaScript strings are TLA+ strings, JavaScript objects are functions   *)
(* whose domain is the set of keys the object has (an absent key reads as  *)
(* undefined), arrays are sequences.  The jsonld and jsonld-request        *)
(* libraries are the environment: which resources the library loads, in    *)
(* which order, what a request or the library returns and what it rejects  *)
(* with are chosen nondeterministically.                                   *)
(***************************************************************************)
EXTENDS Integers, Sequences, FiniteSets, TLC

VARIABLES
  pc,         \* where the invocation is: start, lib, request, error, done, exit
  argv,       \* the command line: [command, args, given]
  env,        \* what the environment will do: [fault, result, refs]
  cmd,        \* commander's option object handed to the action
  input,      \* the action's input variable
  options,    \* the jsonld options object built by the action
  _primary,   \* the module-level primary flag (jsonld.js line 430)
  requests,   \* the calls made to jsonldRequest, in order
  inflight,   \* indices of requests whose promise is not settled yet
  toLoad,     \* resources the library has still to ask the documentLoader for
  call,       \* the library call the action made, <<>> before it
  result,     \* what the library call or the primary request returned
  stdout,     \* what was written to standard output, one entry per write
  err,        \* the chain of the rejection being reported, outermost first
  exitCode    \* -1 while the process runs, then its exit status

vars == <<pc, argv, env, cmd, input, options, _primary, requests, inflight,
          toLoad, call, result, stdout, err, exitCode>>

-----------------------------------------------------------------------------
(* Bounds of the model *)

\* the most comma-separated tokens in a value of -a/--allow
MaxAllowTokens == 2
\* the most causes chained below a rejected error
MaxCauses == 2
\* the most resources the data itself makes the library load
MaxRefs == 1

-----------------------------------------------------------------------------
(* JavaScript values *)

\* the empty object {}
EmptyObject == <<>>

\* o.k is not undefined
Has(o, k) == k \in DOMAIN o

\* if(o.k) for a boolean option
Flag(o, k) == Has(o, k) /\ o[k] = TRUE

\* if(o.k) for a string option: the empty string is falsy
Str(o, k) == Has(o, k) /\ o[k] # ""

\* {...o, k: v}
With(o, k, v) == (k :> v) @@ o

\* the value null of a string-valued property
Null == "<null>"

\* the value undefined of a string-valued variable
Undefined == "<undefined>"

\* s.indexOf(p) === 0
StartsWith(s, p) == Len(s) >= Len(p) /\ SubSeq(s, 1, Len(p)) = p

\* the i-th character of s
CharAt(s, i) == SubSeq(s, i, i)

\* the characters of an array, as a set
Range(a) == {a[i] : i \in DOMAIN a}

RECURSIVE SplitFrom(_, _, _, _)
\* s.split(','), scanning from position i with the token begun at position b
SplitFrom(s, i, b, acc) ==
  IF i > Len(s) THEN Append(acc, SubSeq(s, b, Len(s)))
  ELSE IF CharAt(s, i) = ","
       THEN SplitFrom(s, i + 1, i + 1, Append(acc, SubSeq(s, b, i - 1)))
       ELSE SplitFrom(s, i + 1, b, acc)

\* String.prototype.split(',')
Split(s) == SplitFrom(s, 1, 1, <<>>)

UpperCase == "ABCDEFGHIJKLMNOPQRSTUVWXYZ"
LowerCase == "abcdefghijklmnopqrstuvwxyz"

LowerChar(c) ==
  IF \E i \in 1..Len(UpperCase) : CharAt(UpperCase, i) = c
  THEN CharAt(LowerCase, CHOOSE i \in 1..Len(UpperCase) : CharAt(UpperCase, i) = c)
  ELSE c

RECURSIVE ToLowerFrom(_, _)
ToLowerFrom(s, i) ==
  IF i > Len(s) THEN "" ELSE LowerChar(CharAt(s, i)) \o ToLowerFrom(s, i + 1)

\* String.prototype.toLowerCase()
ToLowerCase(s) == ToLowerFrom(s, 1)

-----------------------------------------------------------------------------
(* commander: the option object of a command *)

UpperChar(c) ==
  IF \E i \in 1..Len(LowerCase) : CharAt(LowerCase, i) = c
  THEN CharAt(UpperCase, CHOOSE i \in 1..Len(LowerCase) : CharAt(LowerCase, i) = c)
  ELSE c

RECURSIVE CamelFrom(_, _)
\* commander's camelcase of a long flag: each '-' is dropped and the letter
\* after it is capitalised
CamelFrom(s, i) ==
  IF i > Len(s) THEN ""
  ELSE IF CharAt(s, i) = "-" /\ i < Len(s)
       THEN UpperChar(CharAt(s, i + 1)) \o CamelFrom(s, i + 2)
       ELSE CharAt(s, i) \o CamelFrom(s, i + 1)

\* the key under which commander stores the option declared with long flag
\* --<flag>: the camel-cased flag, without the no- of a negating flag
AttributeName(flag) ==
  IF StartsWith(flag, "no-")
  THEN CamelFrom(SubSeq(flag, 4, Len(flag)), 1)
  ELSE CamelFrom(flag, 1)

\* the value Number() gives for a string that is no numeral
NaN == -1

Digits == "0123456789"

IsDigit(c) == \E i \in 1..Len(Digits) : CharAt(Digits, i) = c

DigitValue(c) == (CHOOSE i \in 1..Len(Digits) : CharAt(Digits, i) = c) - 1

RECURSIVE NumberFrom(_, _, _)
NumberFrom(s, i, acc) ==
  IF i > Len(s) THEN acc
  ELSE NumberFrom(s, i + 1, 10 * acc + DigitValue(CharAt(s, i)))

\* Number(s), the argument parser of -i/--indent, on unsigned decimal numerals
Number(s) ==
  IF \A i \in 1..Len(s) : IsDigit(CharAt(s, i)) THEN NumberFrom(s, 1, 0) ELSE NaN

\* the long flags every command has (_jsonLdCommand)
CommonFlags ==
  {"indent", "no-newline", "insecure", "allow", "type", "auto-base", "base",
   "lint", "safe"}

\* the long flags each command adds
CommandFlags(command) ==
  CASE command = "format" -> {"context", "format", "n-quads", "json"}
    [] command = "lint" -> {}
    [] command = "compact" -> {"context", "no-compact-arrays", "graph"}
    [] command = "expand" -> {"context", "keep-free-floating-nodes"}
    [] command = "flatten" -> {"context"}
    [] command = "frame" -> {"frame", "embed", "explicit", "omit-default"}
    [] command = "toRdf" -> {"format", "n-quads", "generalized-rdf"}
    [] command = "canonize" -> {"format", "n-quads"}

\* the values the options have when their flags are not given
Defaults(command) ==
  [indent |-> 2, newline |-> TRUE]
  @@ (IF command = "compact" THEN [compactArrays |-> TRUE] ELSE EmptyObject)
  @@ (IF command = "frame"
      THEN [embed |-> TRUE, explicit |-> FALSE, omitDefault |-> FALSE]
      ELSE EmptyObject)

\* the option object commander hands to the action of `command`, for the
\* flags given on the command line (a function from long flags to values)
_jsonLdCommand(command, given) ==
  LET parsed ==
        [a \in {AttributeName(f) : f \in DOMAIN given} |->
          LET f == CHOOSE g \in DOMAIN given : AttributeName(g) = a
          IN  IF f = "indent" THEN Number(given[f])
              ELSE IF StartsWith(f, "no-") THEN FALSE
              ELSE given[f]]
  IN  parsed @@ Defaults(command)

-----------------------------------------------------------------------------
(* jsonld.js: constants and option translation *)

ALLOW_ALL == <<"stdin", "file", "http", "https">>
ALLOW_DEFAULT == <<"http", "https">>
ALLOW_NONE == <<>>

\* process.cwd()
Cwd == "/cwd"

\* path.resolve(cwd, p), for a path without . and .. segments
PathResolve(cwd, p) ==
  IF p = "" THEN cwd
  ELSE IF StartsWith(p, "/") THEN p
  ELSE cwd \o "/" \o p

_isHTTP(url) == StartsWith(url, "http://") \/ StartsWith(url, "https://")

_getSourceBase(command, in) ==
  IF in = "-" THEN "stdin://"
  ELSE IF _isHTTP(in) THEN in
  ELSE "file://" \o PathResolve(Cwd, in)

\* _getBase as it was before base defaulted to null: without an explicit base
\* the base comes from any input but stdin
_getBaseFromInput(command, in) ==
  IF Str(command, "base") THEN command.base
  ELSE IF in # "-" THEN _getSourceBase(command, in)
  ELSE Null

_getBase(command, in) ==
  IF Str(command, "base") THEN command.base
  ELSE IF Flag(command, "sourceBase") THEN _getSourceBase(command, in)
  ELSE Null

\* the request options, were -k/--insecure ignored
_requestOptionsVerifying(command, in) ==
  (IF Str(command, "type") THEN [dataType |-> command.type] ELSE EmptyObject)
  @@ [base |-> _getBase(command, in)]

_requestOptions(command, in) ==
  (IF Flag(command, "insecure")
   THEN [agent |-> [rejectUnauthorized |-> FALSE]] ELSE EmptyObject)
  @@ (IF Str(command, "type") THEN [dataType |-> command.type] ELSE EmptyObject)
  @@ [base |-> _getBase(command, in)]

\* AllowModes with the two tests in the other order: none wins over all
AllowModesNoneFirst(list) ==
  LET modes == Split(list)
  IN  IF "none" \in Range(modes) THEN ALLOW_NONE
      ELSE IF "all" \in Range(modes) THEN ALLOW_ALL
      ELSE modes

\* the allow-list selected by a value of -a/--allow
AllowModes(list) ==
  LET modes == Split(list)
  IN  IF "all" \in Range(modes) THEN ALLOW_ALL
      ELSE IF "none" \in Range(modes) THEN ALLOW_NONE
      ELSE modes

_jsonLdOptions(command, in) ==
  (IF Str(command, "allow")
   THEN [allow |-> AllowModes(command.allow)]
   ELSE [access |-> ALLOW_DEFAULT])
  @@ (IF Flag(command, "lint")
      THEN [eventHandler |-> "_warningHandler"] ELSE EmptyObject)
  @@ (IF Flag(command, "safe") THEN [safe |-> TRUE] ELSE EmptyObject)
  @@ [base |-> _getBase(command, in), documentLoader |-> "documentLoader"]

\* the options _jsonldRequest passes to jsonldRequest: reqOptions with allow
\* set to ALLOW_ALL when the primary flag is up, to options.allow otherwise
\* (a key set to undefined is an absent key)
_jsonldRequestOptions(primary, reqOptions, opts) ==
  LET rest == [k \in DOMAIN reqOptions \ {"allow"} |-> reqOptions[k]]
  IN  IF primary THEN With(rest, "allow", ALLOW_ALL)
      ELSE IF Has(opts, "allow") THEN With(rest, "allow", opts.allow)
      ELSE rest

-----------------------------------------------------------------------------
(* JSON values and _output *)

\* A JavaScript value is a record tagged with its kind: [t |-> "object",
\* members |-> a sequence of <<key, value>> pairs], [t |-> "array", items |-> a
\* sequence of values], [t |-> "string", v |-> s], [t |-> "number", n |-> n],
\* [t |-> "null"], [t |-> "undefined"].

\* typeof data
TypeOf(data) ==
  IF data.t \in {"object", "array", "null"} THEN "object" ELSE data.t

RECURSIVE Spaces(_)
Spaces(n) == IF n <= 0 THEN "" ELSE " " \o Spaces(n - 1)

\* the gap JSON.stringify derives from a numeric space argument: at most ten
\* spaces, none for a number below 1 (NaN included)
Gap(indent) == IF indent < 1 THEN "" ELSE Spaces(IF indent > 10 THEN 10 ELSE indent)

\* a string without characters that need escaping, quoted
Quote(s) == "\"" \o s \o "\""

RECURSIVE Serialize(_, _, _)
RECURSIVE SerializeItems(_, _, _, _, _)

\* the members of an object (isObject) or the elements of an array, from the
\* i-th on, each on its own line when there is a gap
SerializeItems(items, i, isObject, gap, ind) ==
  IF i > Len(items) THEN ""
  ELSE LET sep == IF i = 1 THEN "" ELSE ","
           nl == IF gap = "" THEN "" ELSE "\n" \o ind
           colon == IF gap = "" THEN ":" ELSE ": "
           item == IF isObject
                   THEN Quote(items[i][1]) \o colon \o Serialize(items[i][2], gap, ind)
                   ELSE Serialize(items[i], gap, ind)
       IN  sep \o nl \o item \o SerializeItems(items, i + 1, isObject, gap, ind)

\* the serialization of value at indentation ind
Serialize(value, gap, ind) ==
  CASE value.t = "null" -> "null"
    [] value.t = "number" -> ToString(value.n)
    [] value.t = "string" -> Quote(value.v)
    [] value.t = "array" ->
         IF value.items = <<>> THEN "[]"
         ELSE "[" \o SerializeItems(value.items, 1, FALSE, gap, ind \o gap)
              \o (IF gap = "" THEN "" ELSE "\n" \o ind) \o "]"
    [] value.t = "object" ->
         IF value.members = <<>> THEN "{}"
         ELSE "{" \o SerializeItems(value.members, 1, TRUE, gap, ind \o gap)
              \o (IF gap = "" THEN "" ELSE "\n" \o ind) \o "}"

\* JSON.stringify(data, null, indent)
JSONStringify(data, indent) == Serialize(data, Gap(indent), "")

IsSpace(c) == c \in {" ", "\n", "\t", "\r"}

RECURSIVE TrimStart(_)
TrimStart(s) ==
  IF s # "" /\ IsSpace(CharAt(s, 1)) THEN TrimStart(SubSeq(s, 2, Len(s))) ELSE s

RECURSIVE TrimEnd(_)
TrimEnd(s) ==
  IF s # "" /\ IsSpace(CharAt(s, Len(s))) THEN TrimEnd(SubSeq(s, 1, Len(s) - 1)) ELSE s

\* String.prototype.trim()
Trim(s) == TrimEnd(TrimStart(s))

\* process.stdout.write(data) throws for data that is neither string nor buffer
_outputThrows(data) == TypeOf(data) \notin {"object", "string"}

\* _output writing a string as it is, without trim()
_outputUntrimmed(data, command) ==
  <<IF TypeOf(data) = "object" THEN JSONStringify(data, command.indent)
    ELSE data.v>>
  \o (IF command.newline THEN <<"\n">> ELSE <<>>)

\* the writes _output(data, command) makes to standard output
_output(data, command) ==
  <<IF TypeOf(data) = "object" THEN JSONStringify(data, command.indent)
    ELSE Trim(data.v)>>
  \o (IF command.newline THEN <<"\n">> ELSE <<>>)

-----------------------------------------------------------------------------
(* Errors *)

\* A thrown value is modelled by the chain of its causes, outermost first.
\* Each link records typeof, truthiness, its stack ("" when it has none), its
\* toString() and the inspection of its own enumerable properties other than
\* cause ("" when it has none).  Only an object has a cause.

\* new Error(msg)
NewError(msg) ==
  [typeof |-> "object", truthy |-> TRUE,
   stack |-> "Error: " \o msg \o "\n    at bin/jsonld.js",
   string |-> "Error: " \o msg, extra |-> ""]

\* a JsonLdError-like object: a stack and own properties
DetailedError ==
  [typeof |-> "object", truthy |-> TRUE,
   stack |-> "jsonld.InvalidUrl: failed\n    at lib/jsonld.js",
   string |-> "jsonld.InvalidUrl: failed", extra |-> "{ name: 'jsonld.InvalidUrl' }"]

\* an object without a stack
PlainObject ==
  [typeof |-> "object", truthy |-> TRUE, stack |-> "",
   string |-> "[object Object]", extra |-> "{ code: 'ENOENT' }"]

\* a thrown string
StringValue ==
  [typeof |-> "string", truthy |-> TRUE, stack |-> "", string |-> "boom",
   extra |-> ""]

\* undefined, thrown or as a cause
UndefinedValue ==
  [typeof |-> "undefined", truthy |-> FALSE, stack |-> "",
   string |-> "undefined", extra |-> ""]

ObjectLinks == {DetailedError, PlainObject}
LastLinks == ObjectLinks \cup {StringValue, UndefinedValue}

RECURSIVE ChainsOfLen(_)
\* the chains of n values: n - 1 objects, each the cause of the one before,
\* and a last value of any kind
ChainsOfLen(n) ==
  IF n = 1 THEN {<<l>> : l \in LastLinks}
  ELSE {<<o>> \o c : o \in ObjectLinks, c \in ChainsOfLen(n - 1)}

\* the values a rejection can carry: up to MaxCauses causes below the error
ErrChains == UNION {ChainsOfLen(n) : n \in 1..(MaxCauses + 1)}

\* what one call of _error(e, msg) prints before it recurses or exits
_errorLines(e, msg) ==
  <<IF e.stack # "" THEN e.stack ELSE e.string>>
  \o (IF e.typeof = "object" /\ e.extra # "" THEN <<msg \o " " \o e.extra>> ELSE <<>>)

-----------------------------------------------------------------------------
(* The command actions *)

\* a resource the library loads: the role is what the library loads it for
\* (input, context, frame, or ref for a resource the data refers to)
Res(role, url) == [role |-> role, url |-> url]

\* input || '-'
InputOrStdin(in) == IF in \in {Undefined, ""} THEN "-" ELSE in

\* throw e, or reject with e: program.parseAsync rejects and .catch runs _error
Throw(chain) ==
  /\ err' = [chain |-> chain, pos |-> 1]
  /\ pc' = "error"

\* _jsonldRequest(url, reqOptions, opts): test and clear the primary flag and
\* call jsonldRequest; the promise it returns is pending.  The log keeps, with
\* the url and the options passed on, what the resource is loaded for and
\* whether the flag was up.
Request(role, url, reqOptions, opts) ==
  /\ requests' = Append(requests,
       [url |-> url, role |-> role, primary |-> _primary,
        options |-> _jsonldRequestOptions(_primary, reqOptions, opts)])
  /\ _primary' = FALSE
  /\ inflight' = inflight \cup {Len(requests) + 1}

\* await jsonld.<fn>(args, opts): the library runs and will load `resources`
\* and the resources the data refers to
CallLibrary(fn, args, callOptions, resources) ==
  /\ call' = [fn |-> fn, args |-> args, options |-> callOptions]
  /\ toLoad' = resources \cup {Res("ref", u) : u \in env.refs}
  /\ pc' = "lib"
  /\ UNCHANGED <<_primary, requests, inflight, result, stdout, err, exitCode>>

\* the format the format command selects
formatSelected(command) ==
  IF Flag(command, "json") THEN "application/json"
  ELSE IF Flag(command, "nQuads") THEN "application/n-quads"
  ELSE IF Str(command, "format") THEN command.format
  ELSE "json"

NQuadsNames == {"nquads", "n-quads", "application/nquads", "application/n-quads"}

JsonNames ==
  {"json", "jsonld", "json-ld", "ld+json", "application/json",
   "application/ld+json"}

\* the switch of the format command without toLowerCase()
formatBranchCaseSensitive(fmt) ==
  IF fmt \in NQuadsNames THEN "nquads"
  ELSE IF fmt \in JsonNames THEN "json"
  ELSE "unknown"

\* the branch the switch of the format command takes
formatBranch(fmt) ==
  IF ToLowerCase(fmt) \in NQuadsNames THEN "nquads"
  ELSE IF ToLowerCase(fmt) \in JsonNames THEN "json"
  ELSE "unknown"

\* if(cmd.context) options.expandContext = cmd.context
WithExpandContext(opts, command) ==
  IF Str(command, "context") THEN With(opts, "expandContext", command.context)
  ELSE opts

\* the context resource of a command that takes an optional context
ContextResources(command) ==
  IF Str(command, "context") THEN {Res("context", command.context)} ELSE {}

formatOptions(command, in) ==
  WithExpandContext(
    With(_jsonLdOptions(command, in), "format", formatSelected(command)), command)

format ==
  /\ pc = "start" /\ argv.command = "format"
  /\ LET in == InputOrStdin(input)
         opts == formatOptions(cmd, in)
         branch == formatBranch(opts.format)
     IN  /\ input' = in
         /\ CASE branch = "nquads" ->
                   LET o == With(opts, "format", "application/n-quads")
                   IN  /\ options' = o
                       /\ CallLibrary("toRDF", <<in>>, o,
                                      {Res("input", in)} \cup ContextResources(cmd))
              [] branch = "json" ->
                   /\ options' = opts
                   /\ Request("input", in, _requestOptions(cmd, in), opts)
                   /\ pc' = "request"
                   /\ UNCHANGED <<toLoad, call, result, stdout, err, exitCode>>
              [] branch = "unknown" ->
                   /\ options' = opts
                   /\ Throw(<<NewError("ERROR: Unknown format: " \o opts.format)>>)
                   /\ UNCHANGED <<_primary, requests, inflight, toLoad, call,
                                  result, stdout, exitCode>>
  /\ UNCHANGED <<argv, env, cmd>>

lint ==
  /\ pc = "start" /\ argv.command = "lint"
  /\ LET in == InputOrStdin(input)
         opts == _jsonLdOptions(cmd, in)
     IN  /\ input' = in
         /\ options' = opts
         /\ CallLibrary("expand", <<in>>,
                        With(opts, "eventHandler", "_warningHandler"),
                        {Res("input", in)})
  /\ UNCHANGED <<argv, env, cmd>>

\* the error of compact without a context
contextError == NewError("ERROR: Context not specified, use -c/--context")

\* the error of frame, were it a copy of the error of compact
frameErrorCopied == contextError

\* the error of frame without a frame
frameError == NewError("ERROR: Frame not specified, use -f/--frame")

\* the options of compact, were -A/--no-compact-arrays ignored
compactOptionsKeepArrays(command, in) ==
  With(With(_jsonLdOptions(command, in), "compactArrays", TRUE),
       "graph", Flag(command, "graph"))

compactOptions(command, in) ==
  With(With(_jsonLdOptions(command, in), "compactArrays", command.compactArrays),
       "graph", Flag(command, "graph"))

compact ==
  /\ pc = "start" /\ argv.command = "compact"
  /\ LET in == InputOrStdin(input)
     IN  /\ input' = in
         /\ IF ~Str(cmd, "context")
            THEN /\ Throw(<<contextError>>)
                 /\ UNCHANGED <<options, _primary, requests, inflight, toLoad,
                                call, result, stdout, exitCode>>
            ELSE LET opts == compactOptions(cmd, in)
                 IN  /\ options' = opts
                     /\ CallLibrary("compact", <<in, cmd.context>>, opts,
                                    {Res("input", in), Res("context", cmd.context)})
  /\ UNCHANGED <<argv, env, cmd>>

expandOptions(command, in) ==
  LET opts == WithExpandContext(_jsonLdOptions(command, in), command)
  IN  IF Has(command, "keepFreeFloatingNodes")
      THEN With(opts, "keepFreeFloatingNodes", command.keepFreeFloatingNodes)
      ELSE opts

expand ==
  /\ pc = "start" /\ argv.command = "expand"
  /\ LET in == InputOrStdin(input)
         opts == expandOptions(cmd, in)
     IN  /\ input' = in
         /\ options' = opts
         /\ CallLibrary("expand", <<in>>, opts,
                        {Res("input", in)} \cup ContextResources(cmd))
  /\ UNCHANGED <<argv, env, cmd>>

flatten ==
  /\ pc = "start" /\ argv.command = "flatten"
  /\ LET in == InputOrStdin(input)
         opts == _jsonLdOptions(cmd, in)
     IN  /\ input' = in
         /\ options' = opts
         /\ CallLibrary("flatten",
                        IF Has(cmd, "context") THEN <<in, cmd.context>> ELSE <<in>>,
                        opts, {Res("input", in)} \cup ContextResources(cmd))
  /\ UNCHANGED <<argv, env, cmd>>

frameOptions(command, in) ==
  [embed |-> command.embed, explicit |-> command.explicit,
   omitDefault |-> command.omitDefault] @@ _jsonLdOptions(command, in)

frame ==
  /\ pc = "start" /\ argv.command = "frame"
  /\ LET in == InputOrStdin(input)
     IN  /\ input' = in
         /\ IF ~Str(cmd, "frame")
            THEN /\ Throw(<<frameError>>)
                 /\ UNCHANGED <<options, _primary, requests, inflight, toLoad,
                                call, result, stdout, exitCode>>
            ELSE LET opts == frameOptions(cmd, in)
                 IN  /\ options' = opts
                     /\ CallLibrary("frame", <<in, cmd.frame>>, opts,
                                    {Res("input", in), Res("frame", cmd.frame)})
  /\ UNCHANGED <<argv, env, cmd>>

\* the format of toRdf and canonize: -f/--format wins over -q/--n-quads
rdfOptions(command, in) ==
  LET opts == _jsonLdOptions(command, in)
      q == IF Flag(command, "nQuads")
           THEN With(opts, "format", "application/n-quads") ELSE opts
      g == IF Flag(command, "generalizedRdf")
           THEN With(q, "produceGeneralizedRdf", TRUE) ELSE q
  IN  IF Str(command, "format") THEN With(g, "format", command.format) ELSE g

toRdf ==
  /\ pc = "start" /\ argv.command = "toRdf"
  /\ LET in == InputOrStdin(input)
         opts == rdfOptions(cmd, in)
     IN  /\ input' = in
         /\ options' = opts
         /\ CallLibrary("toRDF", <<in>>, opts, {Res("input", in)})
  /\ UNCHANGED <<argv, env, cmd>>

canonize ==
  /\ pc = "start" /\ argv.command = "canonize"
  /\ LET in == InputOrStdin(input)
         opts == rdfOptions(cmd, in)
     IN  /\ input' = in
         /\ options' = opts
         /\ CallLibrary("canonize", <<in>>, opts, {Res("input", in)})
  /\ UNCHANGED <<argv, env, cmd>>

-----------------------------------------------------------------------------
(* The libraries: jsonld calls the documentLoader, jsonld-request serves it *)

\* the loader jsonld-request uses for a location
Loader(url) ==
  IF url = "-" THEN "stdin"
  ELSE IF StartsWith(url, "https://") THEN "https"
  ELSE IF StartsWith(url, "http://") THEN "http"
  ELSE "file"

\* jsonld-request serves a request only through a loader of its allow option;
\* without the option its own default decides
Permitted(req) ==
  Has(req.options, "allow") => Loader(req.url) \in Range(req.options.allow)

\* the library has the input document: its request has resolved
InputLoaded ==
  \E i \in DOMAIN requests : requests[i].role = "input" /\ i \notin inflight

\* options.documentLoader(url), called by the library for one of the
\* resources it needs, in an order of the library's choosing; what the data
\* refers to is known only once the input is loaded
documentLoader(r) ==
  /\ pc = "lib"
  /\ r \in toLoad
  /\ r.role = "ref" => InputLoaded
  /\ toLoad' = toLoad \ {r}
  /\ Request(r.role, r.url, _requestOptions(cmd, r.url), options)
  /\ UNCHANGED <<pc, argv, env, cmd, input, options, call, result, stdout, err,
                 exitCode>>

\* the rest of an action once its result is there: _output, except in lint
Continue(data) ==
  /\ result' = data
  /\ IF argv.command = "lint"
     THEN /\ pc' = "done"
          /\ UNCHANGED <<stdout, err>>
     ELSE IF _outputThrows(data)
     THEN /\ Throw(<<NewError("TypeError [ERR_INVALID_ARG_TYPE]")>>)
          /\ UNCHANGED stdout
     ELSE /\ stdout' = stdout \o _output(data, cmd)
          /\ pc' = "done"
          /\ UNCHANGED err

\* the promise of request i resolves; in the format command's own request
\* the action goes on with reqResult.data
RequestResolves(i) ==
  /\ pc \in {"lib", "request"}
  /\ i \in inflight
  /\ Permitted(requests[i])
  /\ inflight' = inflight \ {i}
  /\ IF pc = "request"
     THEN Continue(env.data)
     ELSE UNCHANGED <<pc, result, stdout, err>>
  /\ UNCHANGED <<argv, env, cmd, input, options, _primary, requests, toLoad,
                 call, exitCode>>

\* the promise of request i rejects (loader not allowed, fetch or parse
\* failure) and the rejection reaches program.parseAsync
RequestRejects(i) ==
  /\ pc \in {"lib", "request"}
  /\ i \in inflight
  /\ inflight' = inflight \ {i}
  /\ Throw(env.fault)
  /\ UNCHANGED <<argv, env, cmd, input, options, _primary, requests, toLoad,
                 call, result, stdout, exitCode>>

\* what the library call returns: N-Quads text from canonize and from toRDF
\* with a format, a JSON value otherwise
LibraryResult ==
  IF call.fn = "canonize" \/ (call.fn = "toRDF" /\ Has(call.options, "format"))
  THEN [t |-> "string", v |-> env.text]
  ELSE env.object

\* the library call resolves, every resource loaded
LibraryResolves ==
  /\ pc = "lib"
  /\ toLoad = {}
  /\ inflight = {}
  /\ Continue(LibraryResult)
  /\ UNCHANGED <<argv, env, cmd, input, options, _primary, requests, inflight,
                 toLoad, call, exitCode>>

\* the library call rejects: a processing failure
LibraryRejects ==
  /\ pc = "lib"
  /\ inflight = {}
  /\ Throw(env.fault)
  /\ UNCHANGED <<argv, env, cmd, input, options, _primary, requests, inflight,
                 toLoad, call, result, stdout, exitCode>>

\* one call of _error(err, msg): the catch handler's call for the rejection,
\* then one call per cause
_error ==
  /\ pc = "error"
  /\ LET e == err.chain[err.pos]
         msg == IF err.pos = 1 THEN "Error:" ELSE "Error Cause:"
     IN  IF ~e.truthy
         THEN /\ pc' = "done"
              /\ UNCHANGED <<stdout, err, exitCode>>
         ELSE /\ stdout' = stdout \o _errorLines(e, msg)
              /\ IF /\ e.typeof = "object"
                    /\ err.pos < Len(err.chain)
                    /\ err.chain[err.pos + 1].truthy
                 THEN /\ err' = [err EXCEPT !.pos = @ + 1]
                      /\ UNCHANGED <<pc, exitCode>>
                 ELSE /\ pc' = "exit"
                      /\ exitCode' = 1
                      /\ UNCHANGED err
  /\ UNCHANGED <<argv, env, cmd, input, options, _primary, requests, inflight,
                 toLoad, call, result>>

\* nothing is left to run: the process ends with status 0
ProcessEnds ==
  /\ pc = "done"
  /\ pc' = "exit"
  /\ exitCode' = 0
  /\ UNCHANGED <<argv, env, cmd, input, options, _primary, requests, inflight,
                 toLoad, call, result, stdout, err>>

Next ==
  \/ format
  \/ lint
  \/ compact
  \/ expand
  \/ flatten
  \/ frame
  \/ toRdf
  \/ canonize
  \/ \E r \in toLoad : documentLoader(r)
  \/ \E i \in inflight : RequestResolves(i)
  \/ \E i \in inflight : RequestRejects(i)
  \/ LibraryResolves
  \/ LibraryRejects
  \/ _error
  \/ ProcessEnds

-----------------------------------------------------------------------------
(* Command lines and environments *)

Commands ==
  {"format", "lint", "compact", "expand", "flatten", "frame", "toRdf", "canonize"}

\* the flag given with one of the values, or not given
Opt(flag, values) == {EmptyObject} \cup {flag :> v : v \in values}

\* every combination of the flags of A and of B
Merge(A, B) == {a @@ b : a \in A, b \in B}

\* the command lines of the commands with positional inputs and flags: a
\* command takes the flags it declares
CommandLines(inputs, givens) ==
  {[command |-> c, input |-> i,
    given |-> [f \in DOMAIN g \cap (CommonFlags \cup CommandFlags(c)) |-> g[f]]] :
     c \in Commands, i \in inputs, g \in givens}

RECURSIVE Lists(_, _)
\* the comma-separated lists of 1..n tokens
Lists(tokens, n) ==
  IF n = 1 THEN tokens
  ELSE Lists(tokens, n - 1)
       \cup {l \o "," \o t : l \in Lists(tokens, n - 1), t \in tokens}

AllowTokens == {"all", "none", "file", "http"}

\* values of -a/--allow: the empty string and lists of up to MaxAllowTokens
AllowValues == {""} \cup Lists(AllowTokens, MaxAllowTokens)

\* resources the data can refer to: a remote context and a local file
RefUrls == {"https://ex.org/context", "/etc/secret"}

RefSets == {S \in SUBSET RefUrls : Cardinality(S) <= MaxRefs}

SomeObject ==
  [t |-> "object",
   members |-> << <<"@id", [t |-> "string", v |-> "ex:a"]>>,
            <<"ex:p", [t |-> "array", items |-> <<[t |-> "number", n |-> 1]>>]>> >>]

\* an environment with one fault, one document and no references
PlainEnv ==
  [fault |-> <<DetailedError>>, object |-> SomeObject, data |-> SomeObject,
   text |-> "<ex:a> <ex:p> \"1\" .\n", refs |-> {}]

\* enough flags for every command to reach the library
Required == {[context |-> "ctx.jsonld", frame |-> "frame.jsonld"]}

InitOf(lines, envs) ==
  /\ argv \in lines
  /\ env \in envs
  /\ cmd = _jsonLdCommand(argv.command, argv.given)
  /\ input = argv.input
  /\ pc = "start"
  /\ options = EmptyObject
  /\ _primary = TRUE
  /\ requests = <<>>
  /\ inflight = {}
  /\ toLoad = {}
  /\ call = EmptyObject
  /\ result = [t |-> "undefined"]
  /\ stdout = <<>>
  /\ err = [chain |-> <<>>, pos |-> 0]
  /\ exitCode = -1

\* access: the value of -a/--allow, the input and the references vary
Init ==
  InitOf(CommandLines({Undefined, "doc.jsonld", "https://ex.org/doc"},
                      Merge(Opt("allow", AllowValues),
                            Merge(Opt("n-quads", {TRUE}),
                                  Merge(Opt("context", {"ctx.jsonld"}),
                                        Opt("frame", {"frame.jsonld"}))))),
         {[PlainEnv EXCEPT !.refs = R] : R \in RefSets})

Spec == Init /\ [][Next]_vars

\* base: the input, -b/--base and -B/--auto-base vary
InitBase ==
  InitOf(CommandLines({Undefined, "-", "doc.jsonld", "/tmp/doc.jsonld",
                       "http://ex.org/doc", "https://ex.org/doc"},
                      Merge(Required,
                            Merge(Opt("base", {"", "http://base.example/"}),
                                  Merge(Opt("auto-base", {TRUE}),
                                        Opt("n-quads", {TRUE}))))),
         {PlainEnv})

SpecBase == InitBase /\ [][Next]_vars

\* documents a request can return: objects, and a number, which is JSON too
Documents == {SomeObject, [t |-> "object", members |-> <<>>], [t |-> "number", n |-> 5]}

\* errors: the missing flags, the format and the rejected value vary
InitError ==
  InitOf(CommandLines({"doc.jsonld"},
                      Merge(Opt("context", {"ctx.jsonld"}),
                            Merge(Opt("frame", {"frame.jsonld"}),
                                  Opt("format", {"turtle"})))),
         {[PlainEnv EXCEPT !.fault = c, !.data = d] :
            c \in ErrChains, d \in Documents})

SpecError == InitError /\ [][Next]_vars

\* values of -f/--format
FormatValues ==
  {"", "json", "JSON-LD", "ld+json", "application/ld+json", "nquads", "N-Quads",
   "Application/NQuads", "application/n-quads", "turtle", "n_quads"}

\* format: -f/--format, -q/--n-quads and -j/--json vary
InitFormat ==
  InitOf(CommandLines({Undefined, "doc.jsonld"},
                      Merge(Required,
                            Merge(Opt("format", FormatValues),
                                  Merge(Opt("n-quads", {TRUE}), Opt("json", {TRUE}))))),
         {PlainEnv})

SpecFormat == InitFormat /\ [][Next]_vars

\* results the library can return
Objects ==
  {SomeObject, [t |-> "object", members |-> <<>>],
   [t |-> "object",
    members |-> << <<"@graph", [t |-> "array", items |-> <<[t |-> "object", members |-> <<>>]>>]>> >>]}

\* output: the indent, the newline and the flags of compact vary
InitOutput ==
  InitOf(CommandLines({"doc.jsonld"},
                      Merge(Required,
                            Merge(Opt("indent", {"0", "4", "11", "two"}),
                                  Merge(Opt("no-newline", {TRUE}),
                                        Merge(Opt("no-compact-arrays", {TRUE}),
                                              Merge(Opt("graph", {TRUE}),
                                                    Merge(Opt("safe", {TRUE}),
                                                          Opt("base", {"http://base.example/"})))))))),
         {[PlainEnv EXCEPT !.object = o, !.text = t] :
            o \in Objects, t \in {"<ex:a> <ex:p> \"1\" .\n", "  \n"}})

SpecOutput == InitOutput /\ [][Next]_vars

\* TLS: -k/--insecure, the input, -a/--allow and the references vary
InitInsecure ==
  InitOf(CommandLines({"doc.jsonld", "https://ex.org/doc"},
                      Merge(Required,
                            Merge(Opt("insecure", {TRUE}),
                                  Opt("allow", {"all", "none"})))),
         {[PlainEnv EXCEPT !.refs = R] : R \in RefSets})

SpecInsecure == InitInsecure /\ [][Next]_vars

-----------------------------------------------------------------------------
(* The claims *)

\* the requests made with the primary flag down
Secondary == {i \in DOMAIN requests : ~requests[i].primary}

\* C1: when -a/--allow is not given, every secondary request is passed to
\* jsonldRequest with the allow-list {http, https}, so that a secondary load
\* from a file or from stdin is not served.
C1_DefaultAllowList ==
  ~Has(argv.given, "allow") =>
    \A i \in DOMAIN requests :
      i > 1 =>
        /\ Has(requests[i].options, "allow")
        /\ Range(requests[i].options.allow) = {"http", "https"}
        /\ Loader(requests[i].url) \in {"file", "stdin"} => ~Permitted(requests[i])

\* C2: in every command the request issued with the unrestricted allow-list
\* because the primary flag is up is the request for the positional input; a
\* request for a context, a frame or a resource the data refers to is never
\* the primary one, in whatever order the library calls the documentLoader.
C2_PrimaryIsInput ==
  \A i \in DOMAIN requests :
    /\ requests[i].role = "input" =>
         /\ Has(requests[i].options, "allow")
         /\ requests[i].options.allow = ALLOW_ALL
    /\ requests[i].role # "input" => ~requests[i].primary

\* the invocation lacks the flag its command requires
MissingContext == argv.command = "compact" /\ ~Has(argv.given, "context")
MissingFrame == argv.command = "frame" /\ ~Has(argv.given, "frame")

\* C3: compact without --context and frame without --frame never reach the
\* library or a request, and end with exit code 1 after printing the message
\* that names the missing flag.
C3_MissingFlagExits1 ==
  (MissingContext \/ MissingFrame) =>
    /\ pc \in {"start", "error", "exit"}
    /\ requests = <<>>
    /\ call = EmptyObject
    /\ pc = "exit" =>
         /\ exitCode = 1
         /\ Len(stdout) = 1
         /\ MissingContext =>
              StartsWith(stdout[1], "Error: ERROR: Context not specified, use -c/--context")
         /\ MissingFrame =>
              StartsWith(stdout[1], "Error: ERROR: Frame not specified, use -f/--frame")

\* C3 witness: frame without --frame has exited with code 1
C3_Witness == MissingFrame /\ pc = "exit" /\ exitCode = 1 /\ Len(stdout) = 1

\* a rejection or a throw has reached the catch handler
Failed == err.pos > 0

\* C4: the process exits with code 1 when any error occurred during the
\* invocation, whatever the value thrown, and with code 0 otherwise.
C4_ExitCode ==
  pc = "exit" => exitCode = (IF Failed THEN 1 ELSE 0)

\* the line that reports one value: its stack, or its string form
ReportLine(e) == IF e.stack # "" THEN e.stack ELSE e.string

RECURSIVE CauseChain(_, _)
\* the thrown value and its causes from the i-th link on: the chain ends at
\* a cause that is not there
CauseChain(chain, i) ==
  IF i > Len(chain) \/ (i > 1 /\ ~chain[i].truthy) THEN <<>>
  ELSE <<chain[i]>> \o CauseChain(chain, i + 1)

\* a line that shows the own properties of an error, not an error itself
IsPropertiesLine(l) == StartsWith(l, "Error: {") \/ StartsWith(l, "Error Cause: {")

IsReportLine(l) == ~IsPropertiesLine(l)

\* C5: every failure is reported on standard output before the process
\* terminates: the stack (or string form) of the thrown value, then of each
\* error of its cause chain from outermost to innermost, and the process
\* terminates with a non-zero status only after the whole chain is printed.
C5_FailureReported ==
  /\ (exitCode > 0) => Failed
  /\ (pc = "exit" /\ Failed) =>
       /\ exitCode > 0
       /\ LET expected == CauseChain(err.chain, 1)
          IN  SelectSeq(stdout, IsReportLine)
                = [i \in 1..Len(expected) |-> ReportLine(expected[i])]

\* the absolute path of a file name
AbsolutePath(name) == IF StartsWith(name, "/") THEN name ELSE Cwd \o "/" \o name

\* the base IRI of a source
SourceBase(in) ==
  IF in = "-" THEN "stdin://"
  ELSE IF StartsWith(in, "http://") \/ StartsWith(in, "https://") THEN in
  ELSE "file://" \o AbsolutePath(in)

\* C6: with -B/--auto-base and no -b/--base, the base IRI passed to the
\* library, and in the options of the request for the input, is derived from
\* the source: stdin:// for '-', the input itself for an http(s) URL, file://
\* and the absolute path otherwise.
C6_AutoBase ==
  (Has(argv.given, "auto-base") /\ ~Has(argv.given, "base")) =>
    /\ call # EmptyObject => call.options.base = SourceBase(input)
    /\ \A i \in DOMAIN requests :
         requests[i].role = "input" => requests[i].options.base = SourceBase(input)

\* every base the invocation has put in library or request options so far
Bases ==
  {requests[i].options.base : i \in DOMAIN requests}
  \cup (IF call # EmptyObject THEN {call.options.base} ELSE {})
  \cup (IF options # EmptyObject THEN {options.base} ELSE {})

\* C7 as claimed: base is null in the library options and in every request
\* when neither -b nor -B is given, and is exactly the value of -b when -b is
\* given, with or without -B.
C7_BaseAsClaimed ==
  /\ (~Has(argv.given, "base") /\ ~Has(argv.given, "auto-base")) =>
       Bases \subseteq {Null}
  /\ Has(argv.given, "base") => Bases \subseteq {argv.given.base}

\* C7 amended: base is null when -B is not given and -b is absent or empty,
\* and is exactly the value of -b when -b is given with a non-empty value,
\* with or without -B.
C7_BaseDefaultsToNull ==
  /\ (~Has(argv.given, "auto-base") /\ ~Str(argv.given, "base")) =>
       Bases \subseteq {Null}
  /\ Str(argv.given, "base") => Bases \subseteq {argv.given.base}

\* C7 witness: -b and -B both given, the library called with the explicit
\* base and a secondary request made with it
C7_Witness ==
  /\ Str(argv.given, "base") /\ Has(argv.given, "auto-base")
  /\ call # EmptyObject /\ call.options.base = argv.given.base
  /\ Len(requests) >= 2 /\ requests[2].options.base = argv.given.base

\* what the claim says of the secondary requests for a value of -a/--allow
AllowListFollows(list) ==
  \A i \in Secondary :
    /\ Has(requests[i].options, "allow")
    /\ LET tokens == Split(list)
           allow == requests[i].options.allow
       IN  /\ "all" \in Range(tokens) =>
                Range(allow) = {"stdin", "file", "http", "https"}
           /\ ("none" \in Range(tokens) /\ "all" \notin Range(tokens)) =>
                allow = <<>>
           /\ ("none" \notin Range(tokens) /\ "all" \notin Range(tokens)) =>
                allow = tokens

\* C8 as claimed: every value of -a/--allow determines the allow-list of every
\* secondary request: the four loaders when it lists all, the empty list when
\* it lists none and not all, otherwise exactly the listed tokens.
C8_AllowAsClaimed ==
  Has(argv.given, "allow") => AllowListFollows(argv.given.allow)

\* C8 amended: every non-empty value of -a/--allow determines the allow-list
\* of every secondary request in that way.
C8_AllowList ==
  Str(argv.given, "allow") => AllowListFollows(argv.given.allow)

\* C8 witness: -a none,all, and a secondary request made with all four loaders
C8_Witness ==
  /\ Has(argv.given, "allow") /\ argv.given.allow = "none,all"
  /\ \E i \in Secondary :
       /\ Has(requests[i].options, "allow")
       /\ requests[i].options.allow = <<"stdin", "file", "http", "https">>

\* the indent the command line configures
ConfiguredIndent ==
  IF Has(argv.given, "indent") THEN Number(argv.given.indent) ELSE 2

\* a command has written its result and not failed
Succeeded == pc \in {"done", "exit"} /\ ~Failed

\* C9: compact calls the library's compact with the input, the context and
\* the equivalent options (compactArrays unless -A, graph exactly with -g,
\* base, safe mode), and its output is the JSON serialization, with the
\* configured indent, of what the call returned, unaltered.
C9_CompactOutput ==
  argv.command = "compact" =>
    /\ call # EmptyObject =>
         /\ call.fn = "compact"
         /\ call.args = <<InputOrStdin(argv.input), argv.given.context>>
         /\ call.options.compactArrays = ~Has(argv.given, "no-compact-arrays")
         /\ call.options.graph = Has(argv.given, "graph")
         /\ Has(call.options, "safe") = Has(argv.given, "safe")
         /\ call.options.base =
              (IF Str(argv.given, "base") THEN argv.given.base ELSE Null)
    /\ Succeeded =>
         /\ result = env.object
         /\ stdout # <<>>
         /\ stdout[1] = JSONStringify(env.object, ConfiguredIndent)
         /\ Len(stdout) <= 2
         /\ Len(stdout) = 2 => stdout[2] = "\n"

\* C9 witness: compact -A -i 4 has printed the library's result
C9_Witness ==
  /\ argv.command = "compact" /\ Has(argv.given, "no-compact-arrays")
  /\ Has(argv.given, "indent") /\ argv.given.indent = "4"
  /\ pc = "exit" /\ exitCode = 0 /\ result = SomeObject
  /\ stdout[1] = "{\n    \"@id\": \"ex:a\",\n    \"ex:p\": [\n        1\n    ]\n}"

\* the format names of the model that name N-Quads, whatever their case
NQuadsSpellings == {"nquads", "N-Quads", "Application/NQuads", "application/n-quads"}

\* the format names of the model that name JSON, whatever their case
JsonSpellings ==
  {"json", "JSON-LD", "ld+json", "application/ld+json", "application/json"}

\* what the format command does when its output format is fmt
FormatBehaviour(fmt) ==
  (argv.command = "format" /\ pc # "start") =>
    CASE fmt \in NQuadsSpellings ->
           /\ call # EmptyObject
           /\ call.fn = "toRDF"
           /\ call.options.format = "application/n-quads"
           /\ Succeeded => result = [t |-> "string", v |-> env.text]
      [] fmt \in JsonSpellings ->
           /\ call = EmptyObject
           /\ Len(requests) = 1
           /\ requests[1].url = input
           /\ Succeeded =>
                /\ result = env.data
                /\ stdout[1] = JSONStringify(env.data, ConfiguredIndent)
      [] OTHER ->
           /\ call = EmptyObject
           /\ requests = <<>>
           /\ Failed
           /\ StartsWith(err.chain[1].stack, "Error: ERROR: Unknown format: " \o fmt)
           /\ pc = "exit" => (exitCode = 1 /\ stdout = <<err.chain[1].stack>>)

\* C10 as claimed: the format is json without a format option, else the
\* value of -f, -q overriding -f and -j overriding both; the N-Quads names
\* convert with the library, the JSON names load and reprint, any other name
\* fails with Unknown format and exit code 1.
C10_FormatAsClaimed ==
  FormatBehaviour(IF Has(argv.given, "json") THEN "application/json"
                  ELSE IF Has(argv.given, "n-quads") THEN "application/n-quads"
                  ELSE IF Has(argv.given, "format") THEN argv.given.format
                  ELSE "json")

\* C10 amended: the same, the format being json also when the value of -f is
\* the empty string.
C10_FormatSelection ==
  FormatBehaviour(IF Has(argv.given, "json") THEN "application/json"
                  ELSE IF Has(argv.given, "n-quads") THEN "application/n-quads"
                  ELSE IF Str(argv.given, "format") THEN argv.given.format
                  ELSE "json")

\* C10 witness: format -f N-Quads has converted with toRDF and exited with 0
C10_Witness ==
  /\ argv.command = "format"
  /\ Has(argv.given, "format") /\ argv.given.format = "N-Quads"
  /\ ~Has(argv.given, "json") /\ ~Has(argv.given, "n-quads")
  /\ call # EmptyObject /\ call.fn = "toRDF"
  /\ pc = "exit" /\ exitCode = 0

\* every character of s is white space
AllSpace(s) == \A i \in 1..Len(s) : IsSpace(CharAt(s, i))

\* out is s without its leading and trailing white space
Trimmed(s, out) ==
  /\ out = "" \/ (~IsSpace(CharAt(out, 1)) /\ ~IsSpace(CharAt(out, Len(out))))
  /\ \E i \in 0..Len(s) :
       /\ i + Len(out) <= Len(s)
       /\ AllSpace(SubSeq(s, 1, i))
       /\ SubSeq(s, i + 1, i + Len(out)) = out
       /\ AllSpace(SubSeq(s, i + Len(out) + 1, Len(s)))

\* C11: a successful command that prints a result writes the result, as JSON
\* with the configured indent (2 by default) when it is an object and without
\* its leading and trailing white space when it is a string, and then exactly
\* one newline, or nothing at all with -N/--no-newline.
C11_OutputShape ==
  (Succeeded /\ argv.command # "lint") =>
    /\ stdout # <<>>
    /\ TypeOf(result) \in {"object", "string"}
    /\ TypeOf(result) = "object" =>
         stdout[1] = JSONStringify(result, ConfiguredIndent)
    /\ TypeOf(result) = "string" => Trimmed(result.v, stdout[1])
    /\ Has(argv.given, "no-newline") => Len(stdout) = 1
    /\ ~Has(argv.given, "no-newline") => (Len(stdout) = 2 /\ stdout[2] = "\n")

\* C11 witness: canonize -N has written the N-Quads without their last
\* newline and nothing more
C11_Witness ==
  /\ argv.command = "canonize" /\ Has(argv.given, "no-newline")
  /\ pc = "exit" /\ exitCode = 0
  /\ result = [t |-> "string", v |-> "<ex:a> <ex:p> \"1\" .\n"]
  /\ stdout = <<"<ex:a> <ex:p> \"1\" .">>

\* request i carries an agent that does not verify certificates
Unverified(i) ==
  /\ Has(requests[i].options, "agent")
  /\ requests[i].options.agent = [rejectUnauthorized |-> FALSE]

\* C12: with -k/--insecure every request of the invocation, primary or
\* secondary, carries an agent with rejectUnauthorized false, and without -k
\* no request carries an agent.
C12_InsecureAgent ==
  \A i \in DOMAIN requests :
    /\ Has(argv.given, "insecure") => Unverified(i)
    /\ ~Has(argv.given, "insecure") => ~Has(requests[i].options, "agent")

\* C12 witness: with -k, a primary and a secondary request were both made
\* with the unverifying agent
C12_Witness ==
  /\ Has(argv.given, "insecure")
  /\ \E i, j \in DOMAIN requests :
       /\ requests[i].primary /\ ~requests[j].primary
       /\ Unverified(i) /\ Unverified(j)

\* exactly the first call of the request wrapper saw the primary flag up and
\* was issued with the unrestricted list, and the flag is down from then on
OnePrimary ==
  /\ \A i \in DOMAIN requests :
       /\ requests[i].primary <=> (i = 1)
       /\ requests[i].primary =>
            requests[i].options.allow = <<"stdin", "file", "http", "https">>
  /\ requests # <<>> => ~_primary

\* the primary flag, once cleared, is never set again
FlagStaysDown == [][~_primary => ~_primary']_vars

\* the secondary allow-list the command line configures
ConfiguredSecondary ==
  IF ~Has(argv.given, "allow") THEN <<"http", "https">>
  ELSE LET tokens == Split(argv.given.allow)
       IN  IF "all" \in Range(tokens) THEN <<"stdin", "file", "http", "https">>
           ELSE IF "none" \in Range(tokens) THEN <<>>
           ELSE tokens

\* C13: in any interleaving of the calls of the request wrapper, exactly the
\* first call is issued with the unrestricted allow-list, two calls never
\* both get primary access, and every later call is issued with the
\* configured secondary allow-list.
C13_FirstCallOnly ==
  /\ OnePrimary
  /\ \A i \in DOMAIN requests :
       i > 1 =>
         /\ Has(requests[i].options, "allow")
         /\ requests[i].options.allow = ConfiguredSecondary

=============================================================================
